---- MODULE Spec2Model ----
(***************************************************************************)
(* A model of the text adventure: the session loop of main.rs, the player  *)
(* operations of player.rs and the room state of rooms.rs.  The combat     *)
(* engine, the items, the configuration and the content of the room graph  *)
(* live in files that are not part of the sources at hand; they are        *)
(* modelled from the design document and marked so where defined.          *)
(*                                                                         *)
(* Indices are 0-based as in the code; At(s, i) reads element i of a Vec.  *)
(* An Option is a sequence of length 0 (None) or 1 (Some).                 *)
(***************************************************************************)
EXTENDS Integers, Sequences, FiniteSets, TLC

VARIABLES
    pc,            \* where the program is: see the actions
    turn_number,   \* main.rs: let mut turn_number
    player,        \* the Player: room, inventory, health, max_health, room_graph
    enemy,         \* the Enemy moved into battle: an Option
    battle_result, \* what battle returned: "Ongoing" while it runs
    screen,        \* the last Screen handed to menu.show_screen
    call,          \* the last operation carried out and the menu's answers
    ret,           \* what that operation returned (an Option)
    battles        \* history: battles started per room in this run

vars == <<pc, turn_number, player, enemy, battle_result, screen, call, ret,
          battles>>

-----------------------------------------------------------------------------
(* Bounds of the model *)

\* the session's steps that raise turn_number are cut off at this value
MaxTurn == 8
\* the longest inventory the operation harness draws
MaxInv == 3

-----------------------------------------------------------------------------
(* Vec and Option helpers *)

Min(a, b) == IF a <= b THEN a ELSE b
Max(a, b) == IF a >= b THEN a ELSE b

None == <<>>
Some(x) == <<x>>

At(s, i) == s[i + 1]
InRange(s, i) == i >= 0 /\ i < Len(s)
\* Vec::remove(i): the rest keeps its order
Remove(s, i) == SubSeq(s, 1, i) \o SubSeq(s, i + 2, Len(s))

\* what a panicking call leaves behind
Panic(msg) == [tag |-> "Panic", msg |-> msg]
IsPanic(r) == r.tag = "Panic"

-----------------------------------------------------------------------------
(* rooms.rs *)

Room == {"Bridge", "UpperCorridor", "StrategyRoom", "Cells", "MessHall",
         "Kitchen", "Stairwell", "CrewArea", "StoreRoom", "LowerCorridor",
         "WashRoom", "Bunks", "EngineRoom", "EscapePod", "Escape"}

\* RoomState::new
RoomStateNew(r, connections) ==
    [room |-> r, items |-> <<>>, enemy |-> None, connections |-> connections]

\* RoomState::add_item
add_item(rs, item) == [rs EXCEPT !.items = Append(@, item)]

\* RoomState::with_enemy (asserts the slot is empty)
with_enemy(rs, e) == [rs EXCEPT !.enemy = Some(e)]

-----------------------------------------------------------------------------
(* Items, configuration, Health, Enemy: not in the sources at hand *)

Food(name, heals_for) == [kind |-> "Food", name |-> name, heals_for |-> heals_for]
Weapon(name, dmg) == [kind |-> "Weapon", name |-> name, damage |-> dmg]

Knife == Weapon("Knife", 5)
Ration == Food("Ration", 4)
Biscuit == Food("Biscuit", 1)

Items == {Knife, Ration, Biscuit}

PLAYER_START_HEALTH == 10
PLAYER_START_MAX_HEALTH == 10

\* Health::heal_to_max
heal_to_max(h, amount, max) == Min(max, h + amount)
\* Health::damage
damage(h, amount) == Max(0, h - amount)

Guard == [health |-> 5, damage |-> 5]

\* rooms::init: the room graph at the start of a run
init ==
    [r \in Room |->
        CASE r = "Bridge" ->
                add_item(add_item(RoomStateNew(r, <<"UpperCorridor">>), Knife), Ration)
          [] r = "UpperCorridor" ->
                with_enemy(RoomStateNew(r, <<"Bridge", "Cells", "Stairwell">>), Guard)
          [] r = "Cells" ->
                add_item(RoomStateNew(r, <<"UpperCorridor">>), Biscuit)
          [] r = "Stairwell" ->
                RoomStateNew(r, <<"UpperCorridor", "EscapePod">>)
          [] r = "EscapePod" ->
                with_enemy(RoomStateNew(r, <<"Stairwell", "Escape">>), Guard)
          [] OTHER -> RoomStateNew(r, <<>>)]

-----------------------------------------------------------------------------
(* rooms.rs: Room::get_name *)

get_name(r) ==
    CASE r = "UpperCorridor" -> "Upper Corridor"
      [] r = "StrategyRoom" -> "Strategy Room"
      [] r = "MessHall" -> "Mess Hall"
      [] r = "CrewArea" -> "Crew Area"
      [] r = "StoreRoom" -> "Store Room"
      [] r = "LowerCorridor" -> "Lower Corridor"
      [] r = "WashRoom" -> "Wash Room"
      [] r = "EngineRoom" -> "Engine Room"
      [] r = "EscapePod" -> "Escape Pod"
      [] r = "Escape" -> ""
      [] OTHER -> r

-----------------------------------------------------------------------------
(* player.rs: the Player and what its operations hand back *)

\* Player::init
PlayerInit ==
    [room |-> "Bridge",
     inventory |-> <<>>,
     health |-> PLAYER_START_HEALTH,
     max_health |-> PLAYER_START_MAX_HEALTH,
     room_graph |-> init]

\* Player::get_room_state
get_room_state(p) == p.room_graph[p.room]

\* an operation's outcome: the player after it, the Screen it showed (an
\* Option) and the panic that ended it (an Option)
Ok(p, scr) == [player |-> p, screen |-> scr, panic |-> None]
Panicked(p, msg) == [player |-> p, screen |-> None, panic |-> Some(msg)]

OutOfBounds == "index out of bounds"
WeaponOutsideCombat == "Weapons cannot be used outside of combat"
Unreachable == "internal error: entered unreachable code"

\* Player::print_room
print_room(p) == [title |-> <<"You are in the", get_name(p.room)>>, room |-> p.room]

\* Player::print_state
print_state(p) ==
    [title |-> "You take a moment to rest and check your body for injuries",
     health |-> p.health, max_health |-> p.max_health]

\* enum PassiveAction
CheckState == [tag |-> "CheckState"]
GoToRoom(r) == [tag |-> "GoToRoom", room |-> r]
UseItem(i) == [tag |-> "UseItem", i |-> i]
PickUpItem(i) == [tag |-> "PickUpItem", i |-> i]

\* the loops of choose_passive_action: l holds options and options_str
RECURSIVE PushConnections(_, _, _)
PushConnections(l, connections, k) ==
    IF k >= Len(connections) THEN l
    ELSE PushConnections(
            [options |-> Append(l.options, GoToRoom(At(connections, k))),
             options_str |-> Append(l.options_str,
                                    <<"Go to the", get_name(At(connections, k))>>)],
            connections, k + 1)

RECURSIVE PushRoomItems(_, _, _)
PushRoomItems(l, items, i) ==
    IF i >= Len(items) THEN l
    ELSE PushRoomItems(
            [options |-> Append(l.options, PickUpItem(i)),
             options_str |-> Append(l.options_str, <<"Pick up the", At(items, i).name>>)],
            items, i + 1)

\* a loop that offers every item of the inventory to eat
RECURSIVE PushFoodAnyItem(_, _, _)
PushFoodAnyItem(l, inv, i) ==
    IF i >= Len(inv) THEN l
    ELSE PushFoodAnyItem(
            [options |-> Append(l.options, UseItem(i)),
             options_str |-> Append(l.options_str, <<"Eat your", At(inv, i).name>>)],
            inv, i + 1)

RECURSIVE PushFood(_, _, _)
PushFood(l, inv, i) ==
    IF i >= Len(inv) THEN l
    ELSE PushFood(
            IF At(inv, i).kind = "Food"
            THEN [options |-> Append(l.options, UseItem(i)),
                  options_str |-> Append(l.options_str, <<"Eat your", At(inv, i).name>>)]
            ELSE l,
            inv, i + 1)

\* choose_passive_action, up to the menu call: the options and their texts
PassiveOptions(p) ==
    PushFood(
        PushRoomItems(
            PushConnections(
                [options |-> <<CheckState>>,
                 options_str |-> <<<<"Check how you're doing", "">>>>],
                get_room_state(p).connections, 0),
            get_room_state(p).items, 0),
        p.inventory, 0)

\* Vec::swap_remove(choice): the element at choice, or a panic
swap_remove(options, choice) ==
    IF InRange(options, choice) THEN At(options, choice) ELSE Panic(OutOfBounds)

\* Player::choose_passive_action, the menu answering choice
choose_passive_action(p, choice) == swap_remove(PassiveOptions(p).options, choice)

\* Vec::swap_remove(i): the last element takes the place of the one removed
SwapRemoved(s, i) ==
    IF i = Len(s) - 1 THEN SubSeq(s, 1, i)
    ELSE SubSeq(s, 1, i) \o <<s[Len(s)]>> \o SubSeq(s, i + 2, Len(s) - 1)

\* a use_item that takes the food out with swap_remove
use_item_swap_remove(p, i) ==
    IF ~InRange(p.inventory, i) THEN Panicked(p, OutOfBounds)
    ELSE LET item == At(p.inventory, i) IN
         IF item.kind = "Food"
         THEN LET prev_health == p.health
                  new_health == heal_to_max(p.health, item.heals_for, p.max_health)
              IN  Ok([p EXCEPT !.health = new_health,
                               !.inventory = SwapRemoved(@, i)],
                     Some([title |-> <<"You ate your", item.name>>,
                           healed_by |-> new_health - prev_health,
                           health |-> new_health,
                           max_health |-> p.max_health]))
         ELSE Panicked(p, WeaponOutsideCombat)

\* a use_item that adds the food's amount without the clamp
use_item_unclamped(p, i) ==
    IF ~InRange(p.inventory, i) THEN Panicked(p, OutOfBounds)
    ELSE LET item == At(p.inventory, i) IN
         IF item.kind = "Food"
         THEN LET prev_health == p.health
                  new_health == p.health + item.heals_for
              IN  Ok([p EXCEPT !.health = new_health,
                               !.inventory = Remove(@, i)],
                     Some([title |-> <<"You ate your", item.name>>,
                           healed_by |-> new_health - prev_health,
                           health |-> new_health,
                           max_health |-> p.max_health]))
         ELSE Panicked(p, WeaponOutsideCombat)

\* Player::use_item
use_item(p, i) ==
    IF ~InRange(p.inventory, i) THEN Panicked(p, OutOfBounds)
    ELSE LET item == At(p.inventory, i) IN
         IF item.kind = "Food"
         THEN LET prev_health == p.health
                  new_health == heal_to_max(p.health, item.heals_for, p.max_health)
              IN  Ok([p EXCEPT !.health = new_health,
                               !.inventory = Remove(@, i)],
                     Some([title |-> <<"You ate your", item.name>>,
                           healed_by |-> new_health - prev_health,
                           health |-> new_health,
                           max_health |-> p.max_health]))
         ELSE Panicked(p, WeaponOutsideCombat)

\* Player::pick_up_item
pick_up_item(p, item) == [p EXCEPT !.inventory = Append(@, item)]

\* a pick-up that leaves the item in the room as well
pick_up_item_copied(p, i) ==
    IF ~InRange(get_room_state(p).items, i) THEN Panicked(p, OutOfBounds)
    ELSE Ok(pick_up_item(p, At(get_room_state(p).items, i)), None)

\* Player::pick_up_item_from_room
pick_up_item_from_room(p, i) ==
    IF ~InRange(get_room_state(p).items, i) THEN Panicked(p, OutOfBounds)
    ELSE LET item == At(get_room_state(p).items, i)
             q == [p EXCEPT !.room_graph[p.room].items = Remove(@, i)]
         IN  Ok(pick_up_item(q, item), None)

\* the match of take_passive_action on the action chosen
carry_out(p, action) ==
    CASE action.tag = "Panic" -> Panicked(p, action.msg)
      [] action.tag = "CheckState" -> Ok(p, Some(print_state(p)))
      [] action.tag = "GoToRoom" -> Ok([p EXCEPT !.room = action.room], None)
      [] action.tag = "UseItem" -> use_item(p, action.i)
      [] action.tag = "PickUpItem" -> pick_up_item_from_room(p, action.i)

\* Player::take_passive_action, the menu answering choice
take_passive_action(p, choice) == carry_out(p, choose_passive_action(p, choice))

-----------------------------------------------------------------------------
(* player.rs: the combat side of the Player *)

\* enum combat::Action
AttackLeft(i) == [tag |-> "AttackLeft", i |-> i]
AttackStraight(i) == [tag |-> "AttackStraight", i |-> i]
AttackRight(i) == [tag |-> "AttackRight", i |-> i]
EatFood(i) == [tag |-> "EatFood", i |-> i]
DodgeLeft == [tag |-> "DodgeLeft"]
DodgeRight == [tag |-> "DodgeRight"]
Nothing == [tag |-> "Nothing"]

IsAttack(a) == a.tag \in {"AttackLeft", "AttackStraight", "AttackRight"}
HasIndex(a) == IsAttack(a) \/ a.tag = "EatFood"

\* a loop that, like the one of choose_passive_action, offers the foods only
RECURSIVE PushCombatItemsFoodOnly(_, _, _)
PushCombatItemsFoodOnly(l, inv, i) ==
    IF i >= Len(inv) THEN l
    ELSE PushCombatItemsFoodOnly(
            IF At(inv, i).kind = "Food"
            THEN [options |-> Append(l.options, EatFood(i)),
                  options_str |-> Append(l.options_str, <<"Eat your", At(inv, i).name>>)]
            ELSE l,
            inv, i + 1)

\* the loop of choose_combat_action over the inventory
RECURSIVE PushCombatItems(_, _, _)
PushCombatItems(l, inv, i) ==
    IF i >= Len(inv) THEN l
    ELSE PushCombatItems(
            IF At(inv, i).kind = "Food"
            THEN [options |-> Append(l.options, EatFood(i)),
                  options_str |-> Append(l.options_str, <<"Eat your", At(inv, i).name>>)]
            ELSE [options |-> Append(l.options, AttackStraight(i)),
                  options_str |-> Append(l.options_str,
                                         <<"Attack with your", At(inv, i).name>>)],
            inv, i + 1)

\* choose_combat_action, up to the first menu call
CombatOptions(p) ==
    PushCombatItems(
        [options |-> <<Nothing, DodgeLeft, DodgeRight>>,
         options_str |-> << <<"Do nothing", "">>, <<"Dodge to the left", "">>,
                            <<"Dodge to the right", "">> >>],
        p.inventory, 0)

\* a match with left and right the wrong way round
AttackDirectionMirrored(i, direction) ==
    CASE direction = 0 -> AttackRight(i)
      [] direction = 1 -> AttackStraight(i)
      [] direction = 2 -> AttackLeft(i)
      [] OTHER -> Panic(Unreachable)

\* a match whose last arm attacks to the right whatever the answer
AttackDirectionDefaultRight(i, direction) ==
    CASE direction = 0 -> AttackLeft(i)
      [] direction = 1 -> AttackStraight(i)
      [] OTHER -> AttackRight(i)

\* the match on the answer to "Which way do you attack?"
AttackDirection(i, direction) ==
    CASE direction = 0 -> AttackLeft(i)
      [] direction = 1 -> AttackStraight(i)
      [] direction = 2 -> AttackRight(i)
      [] OTHER -> Panic(Unreachable)

\* a choose_combat_action that attacks with the menu position, not the
\* inventory index the option carries
choose_combat_action_by_position(p, choice, direction) ==
    LET options == CombatOptions(p).options IN
    IF ~InRange(options, choice) THEN Panic(OutOfBounds)
    ELSE IF At(options, choice).tag = "AttackStraight"
         THEN AttackDirection(choice, direction)
         ELSE swap_remove(options, choice)

\* Player::choose_combat_action, the menu answering choice and, when it is
\* asked for one, direction
choose_combat_action(p, choice, direction) ==
    LET options == CombatOptions(p).options IN
    IF ~InRange(options, choice) THEN Panic(OutOfBounds)
    ELSE IF At(options, choice).tag = "AttackStraight"
         THEN AttackDirection(At(options, choice).i, direction)
         ELSE swap_remove(options, choice)

\* the prompts choose_combat_action shows for these answers
combat_prompts(p, choice) ==
    LET options == CombatOptions(p).options IN
    IF InRange(options, choice) /\ At(options, choice).tag = "AttackStraight"
    THEN 2 ELSE 1

Text(words, name) == [tag |-> "String", text |-> <<words, name>>]

\* Player::describe_combat_action
describe_combat_action(p, action) ==
    IF HasIndex(action) /\ ~InRange(p.inventory, action.i) THEN Panic(OutOfBounds)
    ELSE CASE action.tag = "AttackLeft" ->
                Text("You attack to the left with your", At(p.inventory, action.i).name)
           [] action.tag = "AttackRight" ->
                Text("You attack to the right with your", At(p.inventory, action.i).name)
           [] action.tag = "AttackStraight" ->
                Text("You attack in front of you with your", At(p.inventory, action.i).name)
           [] action.tag = "EatFood" ->
                Text("You attempt to eat your", At(p.inventory, action.i).name)
           [] action.tag = "DodgeLeft" -> Text("You dodge to the left", "")
           [] action.tag = "DodgeRight" -> Text("You dodge to the right", "")
           [] action.tag = "Nothing" -> Text("You do nothing", "")

-----------------------------------------------------------------------------
(* The combat engine (battle, the resolver, the enemy's policy): not in    *)
(* the sources at hand, modelled from sections 4.3 to 4.5 of the design    *)

\* what the enemy's policy may return
EnemyActions == {AttackLeft(0), AttackStraight(0), AttackRight(0), DodgeLeft, DodgeRight}

\* the item index of an action is of the kind the action needs
ValidAction(p, a) ==
    \/ ~HasIndex(a)
    \/ /\ InRange(p.inventory, a.i)
       /\ At(p.inventory, a.i).kind = (IF a.tag = "EatFood" THEN "Food" ELSE "Weapon")

\* a dodge that negates every attack from a side, its own or the other
NegatesEitherSide(defence, attack) ==
    /\ defence.tag \in {"DodgeLeft", "DodgeRight"}
    /\ attack.tag \in {"AttackLeft", "AttackRight"}

\* a dodge negates an attack of the same side only
Negates(defence, attack) ==
    \/ defence.tag = "DodgeLeft" /\ attack.tag = "AttackLeft"
    \/ defence.tag = "DodgeRight" /\ attack.tag = "AttackRight"

\* a resolver that takes the damage off before it heals
resolve_damage_first(p, e, pa, ea) ==
    IF ~ValidAction(p, pa) THEN [player |-> p, enemy |-> e, error |-> Some("InvalidAction")]
    ELSE LET hit == IF IsAttack(ea) /\ ~Negates(pa, ea)
                    THEN damage(p.health, e.damage) ELSE p.health
             inv == IF pa.tag = "EatFood" THEN Remove(p.inventory, pa.i) ELSE p.inventory
             ph == IF pa.tag = "EatFood"
                   THEN heal_to_max(hit, At(p.inventory, pa.i).heals_for, p.max_health)
                   ELSE hit
             eh == IF IsAttack(pa) /\ ~Negates(ea, pa)
                   THEN damage(e.health, At(p.inventory, pa.i).damage) ELSE e.health
         IN  [player |-> [p EXCEPT !.health = ph, !.inventory = inv],
              enemy |-> [e EXCEPT !.health = eh],
              error |-> None]

\* a resolver that heals and leaves the food eaten in the inventory
resolve_food_kept(p, e, pa, ea) ==
    IF ~ValidAction(p, pa) THEN [player |-> p, enemy |-> e, error |-> Some("InvalidAction")]
    ELSE LET healed == IF pa.tag = "EatFood"
                       THEN heal_to_max(p.health, At(p.inventory, pa.i).heals_for,
                                        p.max_health)
                       ELSE p.health
             ph == IF IsAttack(ea) /\ ~Negates(pa, ea)
                   THEN damage(healed, e.damage) ELSE healed
             eh == IF IsAttack(pa) /\ ~Negates(ea, pa)
                   THEN damage(e.health, At(p.inventory, pa.i).damage) ELSE e.health
         IN  [player |-> [p EXCEPT !.health = ph],
              enemy |-> [e EXCEPT !.health = eh],
              error |-> None]

\* the resolver: one turn's two actions applied to both combatants
resolve(p, e, pa, ea) ==
    IF ~ValidAction(p, pa) THEN [player |-> p, enemy |-> e, error |-> Some("InvalidAction")]
    ELSE LET healed == IF pa.tag = "EatFood"
                       THEN heal_to_max(p.health, At(p.inventory, pa.i).heals_for,
                                        p.max_health)
                       ELSE p.health
             inv == IF pa.tag = "EatFood" THEN Remove(p.inventory, pa.i) ELSE p.inventory
             ph == IF IsAttack(ea) /\ ~Negates(pa, ea)
                   THEN damage(healed, e.damage) ELSE healed
             eh == IF IsAttack(pa) /\ ~Negates(ea, pa)
                   THEN damage(e.health, At(p.inventory, pa.i).damage) ELSE e.health
         IN  [player |-> [p EXCEPT !.health = ph, !.inventory = inv],
              enemy |-> [e EXCEPT !.health = eh],
              error |-> None]

\* a termination check that looks at the enemy first
termination_win_first(p, e) ==
    IF e.health = 0 THEN "PlayerWin"
    ELSE IF p.health = 0 THEN "PlayerLoss"
    ELSE "Ongoing"

\* the termination check of the battle loop: loss first
termination(p, e) ==
    IF p.health = 0 THEN "PlayerLoss"
    ELSE IF e.health = 0 THEN "PlayerWin"
    ELSE "Ongoing"

-----------------------------------------------------------------------------
(* main.rs: the session *)

NoBattles == [r \in Room |-> 0]

\* main, up to the inner loop: Player::init() and turn_number = 0
Init ==
    /\ pc = "loop"
    /\ turn_number = 0
    /\ player = PlayerInit
    /\ enemy = None
    /\ battle_result = "None"
    /\ screen = None
    /\ call = [op |-> "init", answers |-> <<>>]
    /\ ret = None
    /\ battles = NoBattles

\* a turn counter that starts again in every iteration
next_turn_shadowed(t) == 1

\* a turn counted once before the room is shown and once after
next_turn_twice(t) == t + 2

\* turn_number += 1
next_turn(t) == t + 1

\* a slot that is read and not emptied
take_left_in_place(p) == p

\* get_room_state_mut().enemy.take(): the player once the slot is emptied
take(p) == [p EXCEPT !.room_graph[p.room].enemy = None]

\* a loop head that lets the player act before it looks for the enemy
MainLoopStepPassiveFirst(t) ==
    /\ pc = "loop"
    /\ turn_number' = t
    /\ screen' = Some(print_room(player))
    /\ call' = [op |-> "loop", answers |-> <<>>]
    /\ ret' = None
    /\ pc' = "passive"
    /\ UNCHANGED <<player, enemy, battle_result, battles>>

\* the head of the inner loop, the counter going to t: count the turn, show
\* the room, and take the room's enemy, if it holds one, into a battle
MainLoopStep(t) ==
    /\ pc = "loop"
    /\ turn_number' = t
    /\ screen' = Some(print_room(player))
    /\ call' = [op |-> "loop", answers |-> <<>>]
    /\ ret' = None
    /\ IF get_room_state(player).enemy # None
       THEN /\ enemy' = get_room_state(player).enemy
            /\ player' = take(player)
            /\ battle_result' = "Ongoing"
            /\ battles' = [battles EXCEPT ![player.room] = @ + 1]
            /\ pc' = "battle"
       ELSE /\ pc' = "passive"
            /\ UNCHANGED <<player, enemy, battle_result, battles>>

\* the head of the inner loop, for as long as the counter is below the bound
MainLoopIteration ==
    /\ turn_number < MaxTurn
    /\ MainLoopStep(next_turn(turn_number))

\* one iteration of the battle loop, the counter going to t: count the turn,
\* get both actions, resolve them, check for the end
BattleTurnStep(t) ==
    /\ pc = "battle"
    /\ \E choice \in 0..Len(CombatOptions(player).options), direction \in 0..3,
          ea \in EnemyActions :
        LET pa == choose_combat_action(player, choice, direction)
            answers == IF combat_prompts(player, choice) = 2
                       THEN <<choice, direction>> ELSE <<choice>>
            r == resolve(player, enemy[1], pa, ea)
            result == termination(r.player, r.enemy)
        IN  /\ turn_number' = t
            /\ ret' = Some(pa)
            /\ UNCHANGED battles
            /\ IF IsPanic(pa)
               THEN /\ pc' = "panicked"
                    /\ call' = [op |-> "choose_combat_action", answers |-> answers]
                    /\ UNCHANGED <<player, enemy, battle_result, screen>>
               ELSE /\ call' = [op |-> "battle_turn", answers |-> answers, enemy |-> ea]
                    /\ screen' = Some(describe_combat_action(player, pa))
                    /\ player' = r.player
                    /\ enemy' = Some(r.enemy)
                    /\ battle_result' = result
                    /\ pc' = IF result = "Ongoing" THEN "battle" ELSE "battle_returned"

\* one iteration of the battle loop, for as long as the counter is below the
\* bound
BattleTurn ==
    /\ turn_number < MaxTurn
    /\ BattleTurnStep(turn_number + 1)

\* a loss that goes round the inner loop only
MainAfterBattleInnerContinue ==
    /\ pc = "battle_returned"
    /\ enemy' = None
    /\ ret' = None
    /\ UNCHANGED <<screen, player, turn_number, battles>>
    /\ battle_result' = "None"
    /\ IF battle_result = "PlayerLoss"
       THEN /\ call' = [op |-> "restart", answers |-> <<>>]
            /\ pc' = "loop"
       ELSE /\ pc' = "passive"
            /\ call' = [op |-> "won", answers |-> <<>>]

\* back in main with battle's result: a loss restarts the run, a win goes on
MainAfterBattle ==
    /\ pc = "battle_returned"
    /\ enemy' = None
    /\ ret' = None
    /\ UNCHANGED screen
    /\ IF battle_result = "PlayerLoss"
       THEN /\ player' = PlayerInit
            /\ turn_number' = 0
            /\ battles' = NoBattles
            /\ battle_result' = "None"
            /\ call' = [op |-> "restart", answers |-> <<>>]
            /\ pc' = "loop"
       ELSE /\ pc' = "passive"
            /\ battle_result' = "None"
            /\ call' = [op |-> "won", answers |-> <<>>]
            /\ UNCHANGED <<player, turn_number, battles>>

\* player.take_passive_action(menu), then the check for the Escape room
TakePassiveAction ==
    /\ pc = "passive"
    /\ \E choice \in 0..Len(PassiveOptions(player).options) :
        LET r == take_passive_action(player, choice) IN
        /\ call' = [op |-> "take_passive_action", answers |-> <<choice>>]
        /\ ret' = Some(choose_passive_action(player, choice))
        /\ player' = r.player
        /\ screen' = IF r.screen # None THEN r.screen ELSE screen
        /\ pc' = IF r.panic # None THEN "panicked"
                 ELSE IF get_room_state(r.player).room = "Escape" THEN "escaped"
                 ELSE "loop"
    /\ UNCHANGED <<turn_number, enemy, battle_result, battles>>

Next ==
    \/ MainLoopIteration
    \/ BattleTurn
    \/ MainAfterBattle
    \/ TakePassiveAction

Spec == Init /\ [][Next]_vars

-----------------------------------------------------------------------------
(* The session without an end to the counting: every count from MaxTurn on *)
(* is kept as MaxTurn, which no step of the program reads, so that a run   *)
(* of the program that goes on for ever is a run of this specification     *)

Saturated(t) == Min(t, MaxTurn)

LiveMainLoopIteration == MainLoopStep(Saturated(next_turn(turn_number)))

LiveBattleTurn == BattleTurnStep(Saturated(turn_number + 1))

LiveNext ==
    \/ LiveMainLoopIteration
    \/ LiveBattleTurn
    \/ MainAfterBattle
    \/ TakePassiveAction

\* the program is one thread that goes on while the menu answers
LiveSpec == Init /\ [][LiveNext]_vars /\ WF_vars(LiveNext)

-----------------------------------------------------------------------------
(* The operations of player.rs on their own, over every small player *)

Inventories == UNION {[1..n -> Items] : n \in 0..MaxInv}

UnitRooms == {"Bridge", "Cells", "Stairwell"}

\* every combat::Action with an index up to MaxInv
Actions ==
    {Nothing, DodgeLeft, DodgeRight}
    \cup {AttackLeft(i) : i \in 0..MaxInv} \cup {AttackStraight(i) : i \in 0..MaxInv}
    \cup {AttackRight(i) : i \in 0..MaxInv} \cup {EatFood(i) : i \in 0..MaxInv}

UnitInit ==
    /\ pc = "unit"
    /\ turn_number = 0
    /\ player \in {[PlayerInit EXCEPT !.room = r, !.inventory = inv, !.health = h] :
                     r \in UnitRooms, inv \in Inventories,
                     h \in 0..PLAYER_START_MAX_HEALTH}
    /\ enemy = None
    /\ battle_result = "None"
    /\ screen = None
    /\ call = [op |-> "init", answers |-> <<>>]
    /\ ret = None
    /\ battles = NoBattles

UnitFrame == UNCHANGED <<turn_number, enemy, battle_result, battles>>

\* use_item(menu, i)
UnitUseItem ==
    /\ pc = "unit"
    /\ \E i \in 0..Len(player.inventory) :
        LET r == use_item(player, i) IN
        /\ call' = [op |-> "use_item", answers |-> <<i>>]
        /\ ret' = None
        /\ player' = r.player
        /\ screen' = r.screen
        /\ pc' = IF r.panic # None THEN "panicked" ELSE "returned"
    /\ UnitFrame

\* choose_combat_action(menu)
UnitChooseCombatAction ==
    /\ pc = "unit"
    /\ \E choice \in 0..Len(CombatOptions(player).options), direction \in 0..3 :
        LET a == choose_combat_action(player, choice, direction) IN
        /\ call' = [op |-> "choose_combat_action",
                    answers |-> IF combat_prompts(player, choice) = 2
                                THEN <<choice, direction>> ELSE <<choice>>]
        /\ ret' = Some(a)
        /\ pc' = IF IsPanic(a) THEN "panicked" ELSE "returned"
    /\ UNCHANGED <<player, screen>>
    /\ UnitFrame

\* describe_combat_action(action)
UnitDescribeCombatAction ==
    /\ pc = "unit"
    /\ \E a \in Actions :
        LET d == describe_combat_action(player, a) IN
        /\ call' = [op |-> "describe_combat_action", answers |-> <<>>, action |-> a]
        /\ ret' = Some(d)
        /\ pc' = IF IsPanic(d) THEN "panicked" ELSE "returned"
    /\ UNCHANGED <<player, screen>>
    /\ UnitFrame

\* choose_passive_action(menu)
UnitChoosePassiveAction ==
    /\ pc = "unit"
    /\ \E choice \in 0..Len(PassiveOptions(player).options) :
        LET a == choose_passive_action(player, choice) IN
        /\ call' = [op |-> "choose_passive_action", answers |-> <<choice>>]
        /\ ret' = Some(a)
        /\ pc' = IF IsPanic(a) THEN "panicked" ELSE "returned"
    /\ UNCHANGED <<player, screen>>
    /\ UnitFrame

\* take_passive_action(menu)
UnitTakePassiveAction ==
    /\ pc = "unit"
    /\ \E choice \in 0..Len(PassiveOptions(player).options) :
        LET r == take_passive_action(player, choice) IN
        /\ call' = [op |-> "take_passive_action", answers |-> <<choice>>]
        /\ ret' = Some(choose_passive_action(player, choice))
        /\ player' = r.player
        /\ screen' = r.screen
        /\ pc' = IF r.panic # None THEN "panicked" ELSE "returned"
    /\ UnitFrame

UnitNext ==
    \/ UnitUseItem
    \/ UnitChooseCombatAction
    \/ UnitDescribeCombatAction
    \/ UnitChoosePassiveAction
    \/ UnitTakePassiveAction

UnitSpec == UnitInit /\ [][UnitNext]_vars

-----------------------------------------------------------------------------
(* The claims *)

\* the step that restarts the run: main is back from a lost battle
Restarting == pc = "battle_returned" /\ battle_result = "PlayerLoss"

\* C1, as stated: over the whole session, restarts included, no step lowers
\* or resets the turn counter
C1_TurnNeverLowered == [][turn_number' >= turn_number]_vars

\* C1, amended: within a run no step lowers the turn counter; the restart of
\* the run after a lost battle, and only it, sets the counter back to 0
C1_TurnLoweredOnlyByRestart ==
    [][/\ ~Restarting => turn_number' >= turn_number
       /\ Restarting => turn_number' = 0]_vars

\* a run has been lost after turns were counted, and the next one counts again
C1_Witness == call.op = "restart" /\ turn_number = 0 /\ pc = "loop"

\* C2: within a run the room's enemy slot is consumed once: a battle starts
\* only from an occupied slot, which is empty from then on and handed to the
\* battle; no step but the restart fills an empty slot; so no room sees more
\* than one battle in a run
C2_EnemySlotConsumedOnce ==
    [][/\ (pc = "loop" /\ pc' = "battle") =>
            /\ get_room_state(player).enemy # None
            /\ enemy' = get_room_state(player).enemy
            /\ player'.room_graph[player.room].enemy = None
       /\ ~Restarting =>
            \A r \in Room : player.room_graph[r].enemy = None
                            => player'.room_graph[r].enemy = None
       /\ \A r \in Room : battles'[r] <= 1
       /\ (pc = "loop" /\ battles[player.room] = 1) => pc' # "battle"]_vars

\* the player is back in a room whose enemy was beaten earlier in the run, and
\* the loop went on to the passive action
C2_Witness ==
    /\ pc = "passive"
    /\ call.op = "loop"
    /\ battles[player.room] = 1

\* C3: a lost battle restarts the run: the next state holds a new player
\* (the initial room, no items, the starting health, a new room graph) and
\* no passive action came in between; a won battle goes on to the passive
\* action with the player as the battle left it
C3_LossRestartsWinContinues ==
    [][pc = "battle_returned" =>
        IF battle_result = "PlayerLoss"
        THEN /\ pc' = "loop"
             /\ call'.op # "take_passive_action"
             /\ player'.room = PlayerInit.room
             /\ player'.inventory = <<>>
             /\ player'.health = PLAYER_START_HEALTH
             /\ player'.max_health = PLAYER_START_MAX_HEALTH
             /\ player'.room_graph = init
        ELSE /\ battle_result = "PlayerWin"
             /\ pc' = "passive"
             /\ player' = player]_vars

\* a run that had picked up an item and lost a battle has been restarted
C3_Witness ==
    /\ call.op = "restart"
    /\ pc = "loop"
    /\ player.inventory = <<>>
    /\ Len(player.room_graph["Bridge"].items) = 2
    /\ player.room_graph["UpperCorridor"].enemy # None

\* C4, as stated: use_item at an index that holds a weapon does not end the
\* process: it hands an error back and leaves the player as it was
C4_UseWeaponIsRecoverable ==
    (/\ call.op = "use_item"
     /\ InRange(player.inventory, call.answers[1])
     /\ At(player.inventory, call.answers[1]).kind = "Weapon")
    => pc # "panicked"

\* the item index of a combat action names no item, or one of the wrong kind
BadIndex(p, a) ==
    /\ HasIndex(a)
    /\ \/ ~InRange(p.inventory, a.i)
       \/ a.tag = "EatFood" /\ At(p.inventory, a.i).kind # "Food"
       \/ IsAttack(a) /\ At(p.inventory, a.i).kind # "Weapon"

\* C5, as stated: describe_combat_action, given an action whose index names
\* no item of the kind needed, neither aborts nor goes on as if nothing were
\* wrong: it yields an InvalidAction
C5_BadIndexIsInvalidAction ==
    (call.op = "describe_combat_action" /\ BadIndex(player, call.action))
    => (pc = "returned" /\ ret[1].tag = "InvalidAction")

\* the options at the 0-based positions of a list
OptionsAt(o, from) == {o[k] : k \in (from + 1)..Len(o)}

\* C6: for every inventory the list choose_combat_action offers is not empty
\* and holds do nothing, dodge left, dodge right, then one eat option per
\* index of a food and one attack option per index of a weapon, nothing for
\* any other index and nothing twice; the texts shown run in parallel
C6_CombatOptionsExact ==
    LET o == CombatOptions(player).options
        t == CombatOptions(player).options_str
        inv == player.inventory
        idx == 0..(Len(inv) - 1)
    IN  /\ Len(o) >= 3
        /\ Len(t) = Len(o)
        /\ SubSeq(o, 1, 3) = <<Nothing, DodgeLeft, DodgeRight>>
        /\ OptionsAt(o, 3) =
              {EatFood(i) : i \in {j \in idx : At(inv, j).kind = "Food"}}
              \cup {AttackStraight(i) : i \in {j \in idx : At(inv, j).kind = "Weapon"}}
        /\ \A j, k \in 1..Len(o) : j # k => o[j] # o[k]
        /\ \A k \in 4..Len(o) : t[k][2] = At(inv, o[k].i).name

\* choose_combat_action has offered and returned the eat option of an
\* inventory that holds a weapon before the food
C6_Witness ==
    /\ call.op = "choose_combat_action"
    /\ pc = "returned"
    /\ Len(player.inventory) = MaxInv
    /\ player.inventory[1].kind = "Weapon"
    /\ ret = Some(EatFood(1))

\* C7: the Action choose_combat_action returns names an item of the kind it
\* needs in the inventory as it is after the call, which is the inventory
\* as it was before: an attack a weapon, EatFood a food
C7_ChosenActionIndexValid ==
    [][call'.op = "choose_combat_action" =>
        /\ player' = player
        /\ pc' = "returned" =>
            LET a == ret'[1] IN
            /\ IsAttack(a) => /\ InRange(player'.inventory, a.i)
                              /\ At(player'.inventory, a.i).kind = "Weapon"
            /\ a.tag = "EatFood" => /\ InRange(player'.inventory, a.i)
                                    /\ At(player'.inventory, a.i).kind = "Food"
            /\ a.tag \in {"AttackLeft", "AttackStraight", "AttackRight", "EatFood",
                          "DodgeLeft", "DodgeRight", "Nothing"}]_vars

\* an attack to the right with the weapon that sits behind a food
C7_Witness ==
    /\ call.op = "choose_combat_action"
    /\ pc = "returned"
    /\ Len(player.inventory) >= 2
    /\ player.inventory[1].kind = "Food"
    /\ ret = Some(AttackRight(1))

\* the menu's answer to the call made in this step lies outside the list it
\* was given: the first or the second prompt of choose_combat_action, or the
\* prompt of choose_passive_action
AnswerOutOfRange ==
    \/ /\ call'.op = "take_passive_action"
       /\ call'.answers[1] >= Len(PassiveOptions(player).options)
    \/ /\ call'.op \in {"choose_combat_action", "battle_turn"}
       /\ \/ call'.answers[1] >= Len(CombatOptions(player).options)
          \/ Len(call'.answers) = 2 /\ call'.answers[2] >= 3

\* C8: an answer of the menu outside the offered range is fatal: the call
\* panics, no Action or PassiveAction comes of it, the player (inventory
\* and rooms included) and the enemy stay as they were, and the program
\* takes no further step
C8_OutOfRangeAnswerIsFatal ==
    [][/\ AnswerOutOfRange =>
            /\ pc' = "panicked"
            /\ IsPanic(ret'[1])
            /\ player' = player
            /\ enemy' = enemy
       /\ pc # "panicked"]_vars

\* the direction prompt was answered with 3 and the program has stopped
C8_Witness ==
    /\ pc = "panicked"
    /\ call.op = "choose_combat_action"
    /\ Len(call.answers) = 2
    /\ call.answers[2] = 3
    /\ ret = Some(Panic(Unreachable))

\* the program is outside a battle
OutsideBattle == pc \in {"loop", "passive", "escaped"}

\* C9: outside battle 0 <= health <= max_health, from the new player on and
\* through every passive action; eating a food that heals a at health h
\* sets the health to min(max_health, h + a), which lies in h..max_health,
\* and the amount reported as healed is new - old and not negative
C9_HealthWithinBounds ==
    /\ [](OutsideBattle => (0 <= player.health /\ player.health <= player.max_health))
    /\ [][(call'.op = "take_passive_action" /\ ret'[1].tag = "UseItem") =>
            LET h == player.health
                m == player.max_health
                a == At(player.inventory, ret'[1].i).heals_for
            IN  /\ player'.health = Min(m, h + a)
                /\ player'.health >= h
                /\ player'.health <= m
                /\ player'.max_health = m
                /\ screen'[1].healed_by = player'.health - h
                /\ screen'[1].healed_by >= 0]_vars

\* a food was eaten outside battle by a wounded player, and healed part of
\* the way only
C9_Witness ==
    /\ call.op = "take_passive_action"
    /\ ret # None
    /\ ret[1].tag = "UseItem"
    /\ screen[1].healed_by > 0
    /\ player.health < player.max_health

\* C10, as stated: the new player, at the start of the session and after
\* every restart, is in the Cells
C10_NewPlayerInCells ==
    call.op \in {"init", "restart"} => player.room = "Cells"

\* C11: a battle and the exploration never overlap: a loop iteration that
\* finds an enemy in the room starts the battle, and no passive action is
\* offered until the battle has returned a win; a battle is in progress
\* exactly while the one enemy taken is held and the result is Ongoing; a
\* passive action is taken only with no battle in progress, and a step of a
\* battle in progress is a step of the battle
C11_BattleBeforePassiveAction ==
    /\ [](/\ Len(enemy) <= 1
          /\ pc = "battle" => (battle_result = "Ongoing" /\ enemy # None)
          /\ battle_result = "Ongoing" => pc \in {"battle", "panicked"}
          /\ pc = "passive" => (enemy = None /\ battle_result = "None"))
    /\ [][/\ (pc = "loop" /\ get_room_state(player).enemy # None)
                => (pc' = "battle" /\ call'.op = "loop")
          /\ pc = "battle"
                => /\ pc' \in {"battle", "battle_returned", "panicked"}
                   /\ call'.op \in {"battle_turn", "choose_combat_action"}
          /\ call'.op = "take_passive_action"
                => (pc = "passive" /\ battle_result # "Ongoing" /\ enemy = None)
          /\ (pc' = "passive" /\ pc # "passive")
                => \/ pc = "battle_returned" /\ battle_result = "PlayerWin"
                   \/ pc = "loop" /\ get_room_state(player).enemy = None]_vars

\* the passive action in a room whose enemy has just been beaten
C11_Witness ==
    /\ pc = "passive"
    /\ call.op = "won"
    /\ battles[player.room] = 1
    /\ get_room_state(player).enemy = None

\* an attack that the defender's action of the same turn does not negate
Lands(attack, defence) ==
    \/ attack.tag = "AttackStraight"
    \/ attack.tag = "AttackLeft" /\ defence.tag # "DodgeLeft"
    \/ attack.tag = "AttackRight" /\ defence.tag # "DodgeRight"

\* a step that resolves a turn of the battle
ResolvedTurn == pc = "battle" /\ call'.op = "battle_turn"

\* C12, as stated: a battle in progress ends after finitely many turns under
\* any sequence of actions: it returns a result (or the menu broke its
\* contract and the program stopped)
C12_BattleTerminates == (pc = "battle") ~> (pc \in {"battle_returned", "panicked"})

\* what the two combatants have left: both healths and, for each food the
\* player holds, its healing and one more
RECURSIVE FoodLeft(_)
FoodLeft(inv) ==
    IF inv = <<>> THEN 0
    ELSE (IF Head(inv).kind = "Food" THEN Head(inv).heals_for + 1 ELSE 0)
         + FoodLeft(Tail(inv))

Stock(p, e) == p.health + e.health + FoodLeft(p.inventory)

\* C12, amended: only idle turns can go on for ever.  No turn raises the
\* stock of the two healths and the foods held, which is never negative; a
\* turn in which an attack lands or a food is eaten lowers it, so a battle
\* has finitely many such turns; a turn in which no attack lands and nothing
\* is eaten (dodges, doing nothing, attacks dodged) changes neither health
\* nor the inventory, and the battle stays Ongoing
C12_OnlyIdleTurnsRepeat ==
    /\ [](pc = "battle" => (Stock(player, enemy[1]) >= 0
                            /\ player.health > 0 /\ enemy[1].health > 0))
    /\ [][ResolvedTurn =>
            LET pa == ret'[1]
                ea == call'.enemy
                idle == /\ ~(IsAttack(ea) /\ Lands(ea, pa))
                        /\ ~(IsAttack(pa) /\ Lands(pa, ea))
                        /\ pa.tag # "EatFood"
            IN  /\ Stock(player', enemy'[1]) <= Stock(player, enemy[1])
                /\ ~idle => Stock(player', enemy'[1]) < Stock(player, enemy[1])
                /\ idle => /\ player' = player
                           /\ enemy' = enemy
                           /\ pc' = "battle"]_vars

\* an idle turn: the player has done nothing while the enemy dodged
C12_Witness ==
    /\ pc = "battle"
    /\ call.op = "battle_turn"
    /\ ret = Some(Nothing)
    /\ call.enemy = DodgeLeft

\* C13: the end of the battle is checked after each resolved turn, loss
\* first: the result is PlayerLoss exactly when the player's health is 0,
\* also when the enemy's is 0 too; PlayerWin exactly when the enemy's health
\* is 0 and the player's is not; Ongoing otherwise; so a result is returned
\* only with the health it names at 0
C13_LossCheckedFirst ==
    /\ [](pc = "battle_returned" =>
            \/ battle_result = "PlayerLoss" /\ player.health = 0
            \/ /\ battle_result = "PlayerWin"
               /\ enemy[1].health = 0
               /\ player.health > 0)
    /\ [][ResolvedTurn =>
            /\ player'.health = 0 => (battle_result' = "PlayerLoss"
                                      /\ pc' = "battle_returned")
            /\ (player'.health > 0 /\ enemy'[1].health = 0)
                    => (battle_result' = "PlayerWin" /\ pc' = "battle_returned")
            /\ (player'.health > 0 /\ enemy'[1].health > 0)
                    => (battle_result' = "Ongoing" /\ pc' = "battle")]_vars

\* both combatants were brought to 0 in the same turn, and the player lost
C13_Witness ==
    /\ pc = "battle_returned"
    /\ battle_result = "PlayerLoss"
    /\ player.health = 0
    /\ enemy[1].health = 0

\* the health a defender at h is left with by the attacker's action
AfterAttack(h, attack, defence, dmg) ==
    IF IsAttack(attack) /\ Lands(attack, defence) THEN Max(0, h - dmg) ELSE h

\* C14: in a resolved turn a Left attack does no damage iff the defender
\* dodged left, a Right attack iff the defender dodged right; a Straight
\* attack, an attack met by the dodge to the other side and an attack on a
\* defender that does nothing, eats or attacks take the full damage off the
\* defender, down to 0 at most; each side's attack is set against the other
\* side's action of the same turn
C14_DodgeNegatesSameSideOnly ==
    [][ResolvedTurn =>
        LET pa == ret'[1]
            ea == call'.enemy
            h == IF pa.tag = "EatFood"
                 THEN Min(player.max_health,
                          player.health + At(player.inventory, pa.i).heals_for)
                 ELSE player.health
        IN  /\ player'.health = AfterAttack(h, ea, pa, enemy[1].damage)
            /\ enemy'[1].health =
                  AfterAttack(enemy[1].health, pa, ea,
                              IF IsAttack(pa) THEN At(player.inventory, pa.i).damage ELSE 0)
            /\ (ea.tag = "AttackLeft" /\ pa.tag = "DodgeLeft") => player'.health = player.health
            /\ (ea.tag = "AttackRight" /\ pa.tag = "DodgeRight") => player'.health = player.health
            /\ (ea.tag = "AttackLeft" /\ pa.tag = "DodgeRight")
                    => player'.health = Max(0, player.health - enemy[1].damage)
            /\ (ea.tag = "AttackRight" /\ pa.tag = "DodgeLeft")
                    => player'.health = Max(0, player.health - enemy[1].damage)
            /\ (pa.tag = "AttackLeft" /\ ea.tag = "DodgeLeft") => enemy'[1].health = enemy[1].health
            /\ (pa.tag = "AttackLeft" /\ ea.tag = "DodgeRight")
                    => enemy'[1].health < enemy[1].health]_vars

\* in the first turn of a battle both sides attacked and both were hit
C14_Witness ==
    /\ call.op = "battle_turn"
    /\ turn_number = 4
    /\ IsAttack(ret[1])
    /\ IsAttack(call.enemy)
    /\ player.health = PLAYER_START_HEALTH - Guard.damage
    /\ enemy[1].health = 0

\* C15: in a turn in which the player eats the food at index i and an attack
\* of the enemy of damage d lands, the health becomes
\* max(0, min(max_health, h + heal) - d): healing first, clamped, then the
\* damage (3/10 with heal 4 and damage 5 gives 2/10 and Ongoing); eating
\* negates no attack, and the food at i leaves the inventory in that turn
C15_HealThenDamage ==
    /\ LET p == [PlayerInit EXCEPT !.health = 3, !.inventory = <<Food("Ration", 4)>>]
           r == resolve(p, Guard, EatFood(0), AttackStraight(0))
       IN  /\ r.player.health = 2
           /\ r.player.inventory = <<>>
           /\ termination(r.player, r.enemy) = "Ongoing"
    /\ [][(ResolvedTurn /\ ret'[1].tag = "EatFood") =>
            LET i == ret'[1].i
                ea == call'.enemy
                healed == Min(player.max_health,
                              player.health + At(player.inventory, i).heals_for)
            IN  /\ player'.inventory = Remove(player.inventory, i)
                /\ enemy'[1].health = enemy[1].health
                /\ IF IsAttack(ea)
                   THEN player'.health = Max(0, healed - enemy[1].damage)
                   ELSE player'.health = healed]_vars

\* the player, at 5 of 10, ate the ration while an attack landed: 9, then 4
C15_Witness ==
    /\ pc = "battle"
    /\ call.op = "battle_turn"
    /\ ret[1].tag = "EatFood"
    /\ IsAttack(call.enemy)
    /\ player.health = 4
    /\ turn_number = 5

\* C16, as stated: every change of the turn counter is an increment by 1
C16_EveryChangeIsIncrement ==
    [][turn_number' # turn_number => turn_number' = turn_number + 1]_vars

\* C16, amended: but for the restart of the run after a lost battle, which
\* sets the counter back to 0, every change of the turn counter is an
\* increment by 1, made once by the head of each exploration-loop iteration
\* (which also shows the room and takes the enemy) and once by each turn of
\* the battle; the return from a won battle and every passive action leave
\* it unchanged, and while a battle runs only the battle's turns change it
C16_IncrementsAndOneReset ==
    [][/\ pc = "loop" => turn_number' = turn_number + 1
       /\ pc = "battle" => (turn_number' = turn_number + 1
                            /\ call'.op \in {"battle_turn", "choose_combat_action"})
       /\ pc = "passive" => turn_number' = turn_number
       /\ pc = "battle_returned" =>
            turn_number' = (IF battle_result = "PlayerLoss" THEN 0 ELSE turn_number)
       /\ turn_number' # turn_number =>
            (turn_number' = turn_number + 1 \/ (Restarting /\ turn_number' = 0))]_vars

\* a battle was won in its first turn: three loop heads and one battle turn
\* were counted, two passive actions were not
C16_Witness ==
    /\ call.op = "won"
    /\ pc = "passive"
    /\ turn_number = 4

\* C17: choose_combat_action asks for a direction iff the first answer is the
\* attack option of a weapon; the answers 0, 1, 2 then give AttackLeft(i),
\* AttackStraight(i), AttackRight(i), i being the weapon's inventory index;
\* for every other first answer one prompt is shown and the action offered
\* at that position comes back as it is
C17_SecondPromptOnlyForWeapons ==
    (call.op = "choose_combat_action" /\ call.answers[1] < 3 + Len(player.inventory)) =>
        LET c == call.answers[1]
            i == c - 3
            weapon == c >= 3 /\ At(player.inventory, i).kind = "Weapon"
        IN  /\ Len(call.answers) = (IF weapon THEN 2 ELSE 1)
            /\ weapon =>
                LET d == call.answers[2] IN
                /\ d = 0 => ret = Some(AttackLeft(i))
                /\ d = 1 => ret = Some(AttackStraight(i))
                /\ d = 2 => ret = Some(AttackRight(i))
            /\ ~weapon =>
                /\ ret = Some(At(CombatOptions(player).options, c))
                /\ c = 0 => ret = Some(Nothing)
                /\ c = 1 => ret = Some(DodgeLeft)
                /\ c = 2 => ret = Some(DodgeRight)
                /\ c >= 3 => ret = Some(EatFood(i))

\* the weapon behind two foods was chosen and the direction answered 0
C17_Witness ==
    /\ call.op = "choose_combat_action"
    /\ call.answers = <<5, 0>>
    /\ ret = Some(AttackLeft(2))
    /\ pc = "returned"

\* a step that eats the food at index i outside combat
Eats(i) ==
    /\ InRange(player.inventory, i)
    /\ At(player.inventory, i).kind = "Food"
    /\ \/ call'.op = "take_passive_action" /\ ret' = Some(UseItem(i))
       \/ call'.op = "use_item" /\ call'.answers = <<i>>

\* C18: eating the food at index i outside combat takes exactly that item
\* out: the inventory is one shorter, the items before i stay where they
\* are and those behind i move up by one; the room, max_health and every
\* room's items, enemy slot and connections are as before
C18_EatingRemovesExactlyThatItem ==
    [][\A i \in 0..MaxInv : Eats(i) =>
        LET old == player.inventory
            new == player'.inventory
        IN  /\ pc' = "returned"
            /\ Len(new) = Len(old) - 1
            /\ \A k \in 1..Len(new) : new[k] = (IF k <= i THEN old[k] ELSE old[k + 1])
            /\ player'.room = player.room
            /\ player'.max_health = player.max_health
            /\ player'.room_graph = player.room_graph
            /\ player'.health >= player.health]_vars

\* the first of three items, a food, was eaten through the menu and the two
\* others are left in their order
C18_Witness ==
    /\ call.op = "take_passive_action"
    /\ ret # None
    /\ ret[1] = UseItem(0)
    /\ player.inventory = <<Knife, Biscuit>>

\* C19: take_passive_action never calls use_item on a weapon: every UseItem(i)
\* on offer, and so the one carried out, has a food at i in the inventory of
\* that moment, and every PickUpItem(i) has i within the room's items; the
\* call panics only on an answer outside the list, never with "Weapons
\* cannot be used outside of combat"
C19_UseItemOfferedForFoodOnly ==
    /\ [](\A k \in 1..Len(PassiveOptions(player).options) :
            LET o == PassiveOptions(player).options[k] IN
            /\ o.tag = "UseItem" => /\ InRange(player.inventory, o.i)
                                    /\ At(player.inventory, o.i).kind = "Food"
            /\ o.tag = "PickUpItem" => InRange(get_room_state(player).items, o.i))
    /\ [][call'.op = "take_passive_action" =>
            LET c == call'.answers[1]
                a == ret'[1]
                r == take_passive_action(player, c)
            IN  /\ a.tag = "UseItem" => /\ InRange(player.inventory, a.i)
                                        /\ At(player.inventory, a.i).kind = "Food"
                /\ a.tag = "PickUpItem" => InRange(get_room_state(player).items, a.i)
                /\ r.panic # Some(WeaponOutsideCombat)
                /\ pc' = "panicked" <=>
                      (c >= Len(PassiveOptions(player).options) /\ r.panic = Some(OutOfBounds))]_vars

\* with a weapon in front of it, the food was offered and eaten
C19_Witness ==
    /\ call.op = "take_passive_action"
    /\ pc = "returned"
    /\ ret # None
    /\ ret[1] = UseItem(1)
    /\ player.inventory = <<Knife>>

\* how often x is held: in the inventory and in all rooms
Held(p, x) ==
    Cardinality({k \in 1..Len(p.inventory) : p.inventory[k] = x})
    + Cardinality(UNION {{<<r, k>> : k \in {j \in 1..Len(p.room_graph[r].items) :
                                                p.room_graph[r].items[j] = x}} :
                         r \in Room})

\* C20: outside combat items are conserved: PickUpItem(i) moves the item at
\* i of the room's list to the end of the inventory, the rest of the list
\* keeps its order and the other rooms are untouched; no passive action
\* adds an item to what the inventory and the rooms hold together, and only
\* eating a food takes one away, that food; checking the state and moving
\* change neither the inventory nor any room's items
C20_ItemsConservedOutsideCombat ==
    [][(call'.op = "take_passive_action" /\ pc' # "panicked") =>
        LET a == ret'[1]
            items == get_room_state(player).items
        IN  /\ a.tag = "PickUpItem" =>
                /\ player'.inventory = Append(player.inventory, At(items, a.i))
                /\ Len(player'.room_graph[player.room].items) = Len(items) - 1
                /\ \A k \in 1..(Len(items) - 1) :
                      player'.room_graph[player.room].items[k]
                        = (IF k <= a.i THEN items[k] ELSE items[k + 1])
                /\ \A r \in Room \ {player.room} :
                      player'.room_graph[r] = player.room_graph[r]
                /\ \A x \in Items : Held(player', x) = Held(player, x)
            /\ a.tag = "UseItem" =>
                \A x \in Items :
                    Held(player', x) = Held(player, x)
                                       - (IF x = At(player.inventory, a.i) THEN 1 ELSE 0)
            /\ a.tag \in {"CheckState", "GoToRoom"} =>
                /\ player'.inventory = player.inventory
                /\ player'.room_graph = player.room_graph
            /\ \A x \in Items : Held(player', x) <= Held(player, x)]_vars

\* the second item of the Bridge was picked up: the knife stays in the room
C20_Witness ==
    /\ call.op = "take_passive_action"
    /\ ret # None
    /\ ret[1] = PickUpItem(1)
    /\ player.inventory = <<Ration>>
    /\ player.room_graph["Bridge"].items = <<Knife>>

====
